---- MODULE Spec2Model ----
(***************************************************************************)
(* Model of ColorizerAJM.Colorizer (src/ColorizerAJM/ColorizerAJM.py).     *)
(*                                                                         *)
(* A Python str is a sequence of one-character strings; "ESC" stands for   *)
(* the single character '\033'.  A Python value (a custom-color value or   *)
(* a color specifier) is a record [t, n, s]: t is its type, n its integer  *)
(* (or the id of a one-entry dict), s its text (or the label of a          *)
(* one-entry dict).  A dict is the sequence of its <<key, value>> items in *)
(* insertion order, keys distinct.  A call's outcome is a record whose     *)
(* status is "ok" or the name of the exception raised.                     *)
(***************************************************************************)
EXTENDS Integers, Sequences, FiniteSets, TLC

VARIABLES ignore_invalid_colors, _custom_colors, _custom_colors_populated,
          arg_custom_colors, normRuns, ret

vars == <<ignore_invalid_colors, _custom_colors, _custom_colors_populated,
          arg_custom_colors, normRuns, ret>>

(* ------------------------------ bounds --------------------------------- *)

\* largest number of entries of the constructor's custom_colors dict
MaxCustom == 2

\* largest number of runs of the normalization loop the model follows on one
\* instance: a call that would run it once more is not taken
MaxNormRuns == 2

\* largest color id handed to the id-taking operations of SpecId
MaxId == 257

(* ------------------------------ strings -------------------------------- *)

ESC == "ESC"

LowerCase == <<"a","b","c","d","e","f","g","h","i","j","k","l","m",
               "n","o","p","q","r","s","t","u","v","w","x","y","z">>

UpperCase == <<"A","B","C","D","E","F","G","H","I","J","K","L","M",
               "N","O","P","Q","R","S","T","U","V","W","X","Y","Z">>

DigitChars == <<"0","1","2","3","4","5","6","7","8","9">>

\* str.upper() on one character
UpperChar(c) ==
    IF \E i \in 1..26 : LowerCase[i] = c
    THEN UpperCase[CHOOSE i \in 1..26 : LowerCase[i] = c]
    ELSE c

\* str.upper()
upper(s) == [i \in 1..Len(s) |-> UpperChar(s[i])]

\* str(n) for an int n >= 0, as the f-string formats it
RECURSIVE str(_)
str(n) ==
    IF n < 10 THEN <<DigitChars[n + 1]>>
    ELSE str(n \div 10) \o <<DigitChars[(n % 10) + 1]>>

\* s.startswith('\033')
startswith_esc(s) == Len(s) >= 1 /\ s[1] = ESC

\* s.replace(old, new) for a one-character old: every occurrence is replaced
RECURSIVE replace(_, _, _)
replace(s, old, new) ==
    IF s = <<>> THEN <<>>
    ELSE (IF Head(s) = old THEN new ELSE <<Head(s)>>) \o replace(Tail(s), old, new)

(* ------------------------------ values --------------------------------- *)

PyInt(n)      == [t |-> "int",   n |-> n, s |-> <<>>]
PyStr(s)      == [t |-> "str",   n |-> 0, s |-> s]
PyNone        == [t |-> "none",  n |-> 0, s |-> <<>>]
PyFloat       == [t |-> "float", n |-> 0, s |-> <<>>]
PyDict(k, n)  == [t |-> "dict",  n |-> n, s |-> k]
PyEmptyDict   == [t |-> "emptydict", n |-> 0, s |-> <<>>]

\* Python truthiness of a specifier (`if not color`)
Truthy(v) ==
    CASE v.t = "none"      -> FALSE
      [] v.t = "int"       -> v.n # 0
      [] v.t = "str"       -> v.s # <<>>
      [] v.t = "emptydict" -> FALSE
      [] OTHER             -> TRUE

(* ------------------------------ dicts ---------------------------------- *)

DictHas(d, k) == \E i \in 1..Len(d) : d[i][1] = k

\* d.get(k, default)
DictGet(d, k, default) ==
    IF DictHas(d, k) THEN d[CHOOSE i \in 1..Len(d) : d[i][1] = k][2] ELSE default

\* d[k] = v : an existing key keeps its place, a new key goes last
DictSet(d, k, v) ==
    IF DictHas(d, k)
    THEN [i \in 1..Len(d) |-> IF d[i][1] = k THEN <<k, v>> ELSE d[i]]
    ELSE Append(d, <<k, v>>)

\* list(d.keys())
DictKeys(d) == [i \in 1..Len(d) |-> d[i][1]]

(* ------------------------- class constants ----------------------------- *)

RED     == <<"R","E","D">>
GREEN   == <<"G","R","E","E","N">>
BLUE    == <<"B","L","U","E">>
YELLOW  == <<"Y","E","L","L","O","W">>
MAGENTA == <<"M","A","G","E","N","T","A">>
CYAN    == <<"C","Y","A","N">>
WHITE   == <<"W","H","I","T","E">>

DEFAULT_COLOR_CODES ==
    << <<RED,     PyStr(<<ESC,"[","9","1","m">>)>>,
       <<GREEN,   PyStr(<<ESC,"[","9","2","m">>)>>,
       <<BLUE,    PyStr(<<ESC,"[","9","4","m">>)>>,
       <<YELLOW,  PyStr(<<ESC,"[","9","3","m">>)>>,
       <<MAGENTA, PyStr(<<ESC,"[","9","5","m">>)>>,
       <<CYAN,    PyStr(<<ESC,"[","9","6","m">>)>>,
       <<WHITE,   PyStr(<<ESC,"[","9","7","m">>)>> >>

RESET_COLOR_CODE == <<ESC,"[","0","m">>

CUSTOM_COLOR_PREFIX == <<ESC,"[","3","8",";","5",";">>

ALL_VALID_CODES_RANGE == 0..255

(* ------------------------------ methods -------------------------------- *)

\* An instance is [ign, cc, pop]: ignore_invalid_colors, _custom_colors and
\* _custom_colors_populated.  A method's outcome is
\* [status, val, cc, pop, ran]: val the str returned, cc and pop the fields
\* the call leaves behind, ran = 1 when the call ran the normalization loop.

Outcome(status, val, cc, pop, ran) ==
    [status |-> status, val |-> val, cc |-> cc, pop |-> pop, ran |-> ran]

\* stringify_color_id with the range check off by one at the top
stringify_color_id_upto_256(color_id) ==
    IF color_id.t = "int" /\ color_id.n \in 0..256
    THEN [status |-> "ok", val |-> CUSTOM_COLOR_PREFIX \o str(color_id.n) \o <<"m">>]
    ELSE [status |-> "InvalidColorCode", val |-> <<>>]

\* stringify_color_id(color_id): [status, val]
stringify_color_id(color_id) ==
    IF color_id.t = "int" /\ color_id.n \in ALL_VALID_CODES_RANGE
    THEN [status |-> "ok", val |-> CUSTOM_COLOR_PREFIX \o str(color_id.n) \o <<"m">>]
    ELSE [status |-> "InvalidColorCode", val |-> <<>>]

RECURSIVE get_color_code(_, _)

\* temp_dict.update(x) with x still the tuple (label, value): update() reads
\* each element of the tuple as a key/value pair, so it must have length 2
DictUpdateFromPair(temp, label, value) ==
    IF Len(label) # 2 THEN [status |-> "ValueError", temp |-> temp]
    ELSE LET t1 == DictSet(temp, <<label[1]>>, PyStr(<<label[2]>>)) IN
         IF value.t # "str" THEN [status |-> "TypeError", temp |-> temp]
         ELSE IF Len(value.s) # 2 THEN [status |-> "ValueError", temp |-> temp]
         ELSE [status |-> "ok",
               temp |-> DictSet(t1, <<value.s[1]>>, PyStr(<<value.s[2]>>))]

\* NormalizeItem storing the label as given, .upper() forgotten
NormalizeItem_keeps_case(self, temp, x) ==
    LET label == x[1]
        value == x[2]
    IN IF value.t = "int"
       THEN LET r == get_color_code(self, PyDict(label, value.n)) IN
            IF r.status = "ok"
            THEN [status |-> "ok", temp |-> DictSet(temp, label, PyStr(r.val))]
            ELSE [status |-> r.status, temp |-> temp]
       ELSE IF value.t = "str" /\ startswith_esc(value.s)
       THEN [status |-> "ok", temp |-> DictSet(temp, label, value)]
       ELSE DictUpdateFromPair(temp, label, value)

\* one pass of the for loop of custom_colors on item x: [status, temp]
NormalizeItem(self, temp, x) ==
    LET label == x[1]
        value == x[2]
    IN IF value.t = "int"
       THEN LET r == get_color_code(self, PyDict(label, value.n)) IN
            IF r.status = "ok"
            THEN [status |-> "ok", temp |-> DictSet(temp, upper(label), PyStr(r.val))]
            ELSE [status |-> r.status, temp |-> temp]
       ELSE IF value.t = "str" /\ startswith_esc(value.s)
       THEN [status |-> "ok", temp |-> DictSet(temp, upper(label), value)]
       ELSE DictUpdateFromPair(temp, label, value)

\* the for loop of custom_colors; an exception leaves the loop
RECURSIVE NormalizeLoop(_, _, _)
NormalizeLoop(self, items, temp) ==
    IF items = <<>> THEN [status |-> "ok", temp |-> temp]
    ELSE LET r == NormalizeItem(self, temp, Head(items)) IN
         IF r.status = "ok" THEN NormalizeLoop(self, Tail(items), r.temp) ELSE r

\* custom_colors with the two assignments after the loop moved out of the
\* `if`: a read of a populated table stores an empty temp_dict
custom_colors_resets(self) ==
    IF ~self.pop
    THEN LET r == NormalizeLoop(self, self.cc, <<>>) IN
         IF r.status = "ok"
         THEN Outcome("ok", <<>>, r.temp, TRUE, 1)
         ELSE Outcome(r.status, <<>>, self.cc, self.pop, 1)
    ELSE Outcome("ok", <<>>, <<>>, TRUE, 0)

\* custom_colors without the test of _custom_colors_populated
custom_colors_ignores_flag(self) ==
    LET r == NormalizeLoop(self, self.cc, <<>>) IN
    IF r.status = "ok"
    THEN Outcome("ok", <<>>, r.temp, TRUE, 1)
    ELSE Outcome(r.status, <<>>, self.cc, self.pop, 1)

\* the custom_colors property; val is not a str here, the dict returned is cc
custom_colors(self) ==
    IF ~self.pop
    THEN LET r == NormalizeLoop(self, self.cc, <<>>) IN
         IF r.status = "ok"
         THEN Outcome("ok", <<>>, r.temp, TRUE, 1)
         ELSE Outcome(r.status, <<>>, self.cc, self.pop, 1)
    ELSE Outcome("ok", <<>>, self.cc, self.pop, 0)

\* the all_loaded_colors property: the outcome of the custom_colors read and
\* the list of names
all_loaded_colors(self) ==
    LET r == custom_colors(self) IN
    [out |-> r,
     names |-> IF r.status = "ok"
               THEN DictKeys(DEFAULT_COLOR_CODES) \o DictKeys(r.cc)
               ELSE <<>>]

\* random_color(), rnd being what random.randint returned
random_color(rnd) == CUSTOM_COLOR_PREFIX \o str(rnd) \o <<"m">>

\* _parse_color_string looking the name up in the custom table first
_parse_color_string_custom_first(self, color_string) ==
    LET r == custom_colors(self) IN
    IF r.status # "ok" THEN r
    ELSE LET full_str == DictGet(r.cc, upper(color_string),
                                 DictGet(DEFAULT_COLOR_CODES, upper(color_string),
                                         PyStr(<<>>))).s
         IN IF full_str # <<>> THEN Outcome("ok", full_str, r.cc, r.pop, r.ran)
            ELSE IF ~self.ign
                 THEN Outcome("InvalidColorCode", <<>>, r.cc, r.pop, r.ran)
                 ELSE Outcome("ok", full_str, r.cc, r.pop, r.ran)

\* _parse_color_string without the test of ignore_invalid_colors
_parse_color_string_always_raises(self, color_string) ==
    LET r == custom_colors(self) IN
    IF r.status # "ok" THEN r
    ELSE LET full_str == DictGet(DEFAULT_COLOR_CODES, upper(color_string),
                                 DictGet(r.cc, upper(color_string), PyStr(<<>>))).s
         IN IF full_str # <<>> THEN Outcome("ok", full_str, r.cc, r.pop, r.ran)
            ELSE Outcome("InvalidColorCode", <<>>, r.cc, r.pop, r.ran)

\* _parse_color_string(color_string): self.custom_colors is read while the
\* arguments of DEFAULT_COLOR_CODES.get are evaluated, whatever the name is
_parse_color_string(self, color_string) ==
    LET r == custom_colors(self) IN
    IF r.status # "ok" THEN r
    ELSE LET full_str == DictGet(DEFAULT_COLOR_CODES, upper(color_string),
                                 DictGet(r.cc, upper(color_string), PyStr(<<>>))).s
         IN IF full_str # <<>> THEN Outcome("ok", full_str, r.cc, r.pop, r.ran)
            ELSE IF ~self.ign
                 THEN Outcome("InvalidColorCode", <<>>, r.cc, r.pop, r.ran)
                 ELSE Outcome("ok", full_str, r.cc, r.pop, r.ran)

\* get_color_code(color)
get_color_code(self, color) ==
    IF color.t \in {"dict", "emptydict"}
    THEN LET color_id == IF color.t = "dict" THEN PyInt(color.n) ELSE PyNone
             r == stringify_color_id(color_id)
         IN Outcome(r.status, r.val, self.cc, self.pop, 0)
    ELSE IF color.t = "int"
    THEN LET r == stringify_color_id(color) IN
         IF r.status = "ok" THEN get_color_code(self, PyStr(r.val))
         ELSE Outcome(r.status, <<>>, self.cc, self.pop, 0)
    ELSE IF color.t = "str" THEN _parse_color_string(self, color.s)
    ELSE Outcome("AttributeError", <<>>, self.cc, self.pop, 0)

\* make_bold with color_code.replace('[', '[1;', 1)
make_bold_first_only(color_code) ==
    IF \A i \in 1..Len(color_code) : color_code[i] # "[" THEN color_code
    ELSE LET p == CHOOSE i \in 1..Len(color_code) :
                    /\ color_code[i] = "["
                    /\ \A j \in 1..(i - 1) : color_code[j] # "["
         IN SubSeq(color_code, 1, p) \o <<"1", ";">>
              \o SubSeq(color_code, p + 1, Len(color_code))

\* make_bold(color_code)
make_bold(color_code) == replace(color_code, "[", <<"[", "1", ";">>)

\* colorize without the test of bold
colorize_always_bold(self, text, color, bold, rnd) ==
    LET r == IF ~Truthy(color)
             THEN Outcome("ok", random_color(rnd), self.cc, self.pop, 0)
             ELSE get_color_code(self, color)
    IN IF r.status # "ok" THEN r
       ELSE Outcome("ok", make_bold(r.val) \o text \o RESET_COLOR_CODE,
                    r.cc, r.pop, r.ran)

\* colorize(text, color, bold), rnd being what random.randint would return
colorize(self, text, color, bold, rnd) ==
    LET r == IF ~Truthy(color)
             THEN Outcome("ok", random_color(rnd), self.cc, self.pop, 0)
             ELSE get_color_code(self, color)
    IN IF r.status # "ok" THEN r
       ELSE LET color_code == IF bold THEN make_bold(r.val) ELSE r.val IN
            Outcome("ok", color_code \o text \o RESET_COLOR_CODE, r.cc, r.pop, r.ran)

(* ------------------------------ inputs --------------------------------- *)

\* a custom escape string holding two sequences: underline, then blue
TwoSequences == <<ESC,"[","4","m",ESC,"[","3","4","m">>

\* labels of the constructor's dict: one that is a default name in lower
\* case, and two that differ in case only
Labels == { <<"r","e","d">>, <<"p","k">>, <<"P","K">> }

\* values of the constructor's dict: ids in and out of range, an escape
\* string, a str that is no escape string, and None
CustomValues == { PyInt(7), PyInt(256), PyStr(TwoSequences), PyStr(<<"c","d">>), PyNone }

\* the dicts of at most n items with distinct keys, in every insertion order
CustomDicts(n) ==
    UNION { { d \in [1..k -> Labels \X CustomValues] :
                \A i, j \in 1..k : d[i][1] = d[j][1] => i = j } : k \in 0..n }

Names == { <<"r","e","d">>, <<"R","e","D">>, <<"b","l","u","e">>,
           <<"p","k">>, <<"P","k">>, <<"z","z">> }

\* color specifiers: absent, ints, names (the empty one too), one-entry and
\* empty dicts, and a value of another type
Colors ==
    { PyNone, PyInt(0), PyInt(7), PyInt(256), PyStr(<<>>), PyFloat,
      PyDict(<<"a">>, 7), PyDict(<<"a">>, 256), PyEmptyDict }
    \cup { PyStr(n) : n \in Names }

Texts == { <<>>, <<"h","[">> }

\* codes handed to make_bold: with one "[", with two, with none
Codes == { <<ESC,"[","9","1","m">>, TwoSequences, <<>>, <<"m">>,
           CUSTOM_COLOR_PREFIX \o <<"7","m">> }

\* outcomes of random.randint(a, b) the model draws: both ends and the middle
randint(a, b) == {a, (a + b) \div 2, b}

(* ------------------------------ actions -------------------------------- *)

Self == [ign |-> ignore_invalid_colors, cc |-> _custom_colors,
         pop |-> _custom_colors_populated]

Ret(op, color, text, bold, status, val, names, ran) ==
    [op |-> op, color |-> color, text |-> text, bold |-> bold,
     status |-> status, val |-> val, names |-> names, ran |-> ran]

\* no call is pending: the caller holds no result
Idle == Ret("idle", PyNone, <<>>, FALSE, "ok", <<>>, <<>>, 0)

\* a call by the single-threaded caller: the fields the call leaves behind,
\* and what it returned or raised
Call(op, color, text, bold, r, names) ==
    /\ ret = Idle
    /\ r.ran = 1 => normRuns < MaxNormRuns
    /\ _custom_colors' = r.cc
    /\ _custom_colors_populated' = r.pop
    /\ normRuns' = normRuns + r.ran
    /\ ret' = Ret(op, color, text, bold, r.status, r.val, names, r.ran)
    /\ UNCHANGED <<ignore_invalid_colors, arg_custom_colors>>

\* Colorizer(custom_colors, ignore_invalid_colors=...)
Construct(dicts) ==
    /\ ignore_invalid_colors \in BOOLEAN
    /\ arg_custom_colors \in dicts
    /\ _custom_colors = arg_custom_colors
    /\ _custom_colors_populated = FALSE
    /\ normRuns = 0
    /\ ret = Idle

Init == Construct(CustomDicts(MaxCustom))

ReadCustomColors ==
    Call("custom_colors", PyNone, <<>>, FALSE, custom_colors(Self), <<>>)

ReadAllLoadedColors ==
    LET r == all_loaded_colors(Self) IN
    Call("all_loaded_colors", PyNone, <<>>, FALSE, r.out, r.names)

RandomColor ==
    \E rnd \in randint(0, 255) :
        Call("random_color", PyInt(rnd), <<>>, FALSE,
             Outcome("ok", random_color(rnd), _custom_colors,
                     _custom_colors_populated, 0), <<>>)

StringifyColorId ==
    \E color \in { c \in Colors : c.t \in {"int", "none"} } :
        LET r == stringify_color_id(color) IN
        Call("stringify_color_id", color, <<>>, FALSE,
             Outcome(r.status, r.val, _custom_colors, _custom_colors_populated, 0),
             <<>>)

GetColorCode ==
    \E color \in Colors :
        Call("get_color_code", color, <<>>, FALSE, get_color_code(Self, color), <<>>)

MakeBold ==
    \E code \in Codes :
        Call("make_bold", PyStr(code), <<>>, FALSE,
             Outcome("ok", make_bold(code), _custom_colors,
                     _custom_colors_populated, 0), <<>>)

Colorize ==
    \E color \in Colors, text \in Texts, bold \in BOOLEAN :
        \E rnd \in IF Truthy(color) THEN {0} ELSE randint(0, 255) :
            Call("colorize", color, text, bold,
                 colorize(Self, text, color, bold, rnd), <<>>)

\* the caller is done with the value returned or the exception raised
Discard ==
    /\ ret # Idle
    /\ ret' = Idle
    /\ UNCHANGED <<ignore_invalid_colors, _custom_colors, _custom_colors_populated,
                   arg_custom_colors, normRuns>>

Next ==
    \/ Discard
    \/ ReadCustomColors
    \/ ReadAllLoadedColors
    \/ RandomColor
    \/ StringifyColorId
    \/ GetColorCode
    \/ MakeBold
    \/ Colorize

Spec == Init /\ [][Next]_vars

(* ---------------- the id-taking operations on every id ----------------- *)

Ids == -2..MaxId

InitId == Construct({ <<>>, << <<<<"p","k">>, PyInt(7)>> >> })

StringifyAnyId ==
    \E id \in Ids :
        LET r == stringify_color_id(PyInt(id)) IN
        Call("stringify_color_id", PyInt(id), <<>>, FALSE,
             Outcome(r.status, r.val, _custom_colors, _custom_colors_populated, 0),
             <<>>)

GetColorCodeAnyId ==
    \E id \in Ids :
        Call("get_color_code", PyInt(id), <<>>, FALSE,
             get_color_code(Self, PyInt(id)), <<>>)

GetColorCodeAnyDict ==
    \E id \in Ids, label \in Labels :
        Call("get_color_code", PyDict(label, id), <<>>, FALSE,
             get_color_code(Self, PyDict(label, id)), <<>>)

NextId == Discard \/ StringifyAnyId \/ GetColorCodeAnyId \/ GetColorCodeAnyDict

SpecId == InitId /\ [][NextId]_vars

(* ------------------- what the claims are stated with ------------------- *)

DefaultNames == {RED, GREEN, BLUE, YELLOW, MAGENTA, CYAN, WHITE}

\* the escape code "\x1b[9<d>m" the class table gives a default name
FixedCode(N) ==
    <<ESC, "[", "9",
      CASE N = RED -> "1" [] N = GREEN -> "2" [] N = YELLOW -> "3"
        [] N = BLUE -> "4" [] N = MAGENTA -> "5" [] N = CYAN -> "6"
        [] N = WHITE -> "7",
      "m">>

\* the number a str of decimal digits reads as (-1 when it is no such str)
RECURSIVE DecimalValue(_)
DecimalValue(ds) ==
    IF ds = <<>> THEN -1
    ELSE LET last == ds[Len(ds)]
             d == IF \E k \in 1..10 : DigitChars[k] = last
                  THEN (CHOOSE k \in 1..10 : DigitChars[k] = last) - 1
                  ELSE -1
             front == SubSeq(ds, 1, Len(ds) - 1)
         IN IF d = -1 THEN -1
            ELSE IF front = <<>> THEN d
            ELSE IF DecimalValue(front) = -1 THEN -1
            ELSE 10 * DecimalValue(front) + d

\* code is "\x1b[38;5;<id>m", id written in decimal without leading zeros
IsIndexedCode(code, id) ==
    /\ Len(code) >= 9
    /\ SubSeq(code, 1, 7) = <<ESC, "[", "3", "8", ";", "5", ";">>
    /\ code[Len(code)] = "m"
    /\ LET ds == SubSeq(code, 8, Len(code) - 1) IN
       /\ DecimalValue(ds) = id
       /\ (ds[1] = "0" => Len(ds) = 1)

\* the number of "[" of code before position i
BracketsBefore(code, i) == Cardinality({ j \in 1..(i - 1) : code[j] = "[" })

\* out is code with "1;" put right after every "[" and nothing else changed
BoldAfterEveryBracket(out, code) ==
    /\ Len(out) = Len(code) + 2 * BracketsBefore(code, Len(code) + 1)
    /\ \A i \in 1..Len(code) :
         LET p == i + 2 * BracketsBefore(code, i) IN
         /\ out[p] = code[i]
         /\ code[i] = "[" => out[p + 1] = "1" /\ out[p + 2] = ";"

\* code with "1;" put right after its first "[" only
BoldAfterFirstBracket(code) ==
    IF \A i \in 1..Len(code) : code[i] # "[" THEN code
    ELSE LET p == CHOOSE i \in 1..Len(code) :
                    /\ code[i] = "["
                    /\ \A j \in 1..(i - 1) : code[j] # "["
         IN SubSeq(code, 1, p) \o <<"1", ";">> \o SubSeq(code, p + 1, Len(code))

\* a value the normalization has a branch for: an int or an escape string
Normalizable(v) == v.t = "int" \/ (v.t = "str" /\ startswith_esc(v.s))

\* a value the custom-color round trip is about
ValidValue(v) ==
    \/ v.t = "int" /\ v.n >= 0 /\ v.n <= 255
    \/ v.t = "str" /\ startswith_esc(v.s)

AllValid(d) == \A i \in 1..Len(d) : ValidValue(d[i][2])

\* code is the escape code a valid custom value stands for
IsCodeOf(code, v) ==
    IF v.t = "int" THEN IsIndexedCode(code, v.n) ELSE code = v.s

\* the name matches no default color and no key of the table now held
Unknown(name) ==
    /\ upper(name) \notin DefaultNames
    /\ ~DictHas(_custom_colors, upper(name))

NormalizationErrors == {"InvalidColorCode", "ValueError", "TypeError"}

\* what resolveColor gives on the instance as it is now
Resolved(color) == get_color_code(Self, color)

(* ------------------------------ claims --------------------------------- *)

\* C1 (as claimed): get_color_code called with an int id in [0,255] returns
\* the indexed code "\x1b[38;5;<id>m", whatever ignore_invalid_colors is.
C1_IntResolvesToIndexedCode ==
    (ret.op = "get_color_code" /\ ret.color.t = "int"
        /\ ret.color.n >= 0 /\ ret.color.n <= 255)
    => (ret.status = "ok" /\ IsIndexedCode(ret.val, ret.color.n))

\* C2 (as claimed): get_color_code of a default name, in any letter case,
\* returns the fixed default code on every instance, whatever the custom
\* input, the flag and the calls made before.  Stated here for the custom
\* inputs whose values are all ints or escape strings, those the
\* normalization has a branch for.
C2_DefaultNameAlwaysResolves ==
    (ret.op = "get_color_code" /\ ret.color.t = "str"
        /\ upper(ret.color.s) \in DefaultNames
        /\ \A i \in 1..Len(arg_custom_colors) : Normalizable(arg_custom_colors[i][2]))
    => (ret.status = "ok" /\ ret.val = FixedCode(upper(ret.color.s)))

\* C2 (amended): get_color_code of a default name, in any letter case,
\* returns the fixed default code whenever the normalization of the custom
\* table completes, whatever the table holds, the flag and the calls made
\* before; when the normalization raises, the call raises that error, the
\* custom table being read before the default lookup.
C2_DefaultNameResolvesOnceNormalized ==
    (ret.op = "get_color_code" /\ ret.color.t = "str"
        /\ upper(ret.color.s) \in DefaultNames)
    => IF _custom_colors_populated
       THEN ret.status = "ok" /\ ret.val = FixedCode(upper(ret.color.s))
       ELSE ret.status \in NormalizationErrors /\ ret.ran = 1

\* C2 witness: "red" resolved to the default code on an instance whose custom
\* input names a color "red" too, on a table normalized by an earlier call.
C2_Witness ==
    /\ ret.op = "get_color_code" /\ ret.color = PyStr(<<"r","e","d">>)
    /\ ret.status = "ok" /\ ret.val = <<ESC,"[","9","1","m">>
    /\ ret.ran = 0 /\ ignore_invalid_colors
    /\ arg_custom_colors = << <<<<"r","e","d">>, PyInt(7)>> >>

\* C3 (as claimed): with every custom value an id in [0,255] or an escape
\* string, get_color_code of the label of an entry, in any letter case,
\* returns the code of that entry's value.
C3_EveryLabelResolvesToItsValue ==
    (ret.op = "get_color_code" /\ ret.color.t = "str" /\ AllValid(arg_custom_colors))
    => \A i \in 1..Len(arg_custom_colors) :
          upper(arg_custom_colors[i][1]) = upper(ret.color.s)
          => (ret.status = "ok" /\ IsCodeOf(ret.val, arg_custom_colors[i][2]))

\* C3 (amended): with every custom value an id in [0,255] or an escape
\* string, get_color_code of the label of an entry, in any letter case,
\* returns the code of that entry's value provided the uppercased label is no
\* default name and no later entry has the same uppercased label; a label
\* that is a default name resolves to the default code.
C3_LabelResolvesUnlessShadowed ==
    (ret.op = "get_color_code" /\ ret.color.t = "str" /\ AllValid(arg_custom_colors))
    => \A i \in 1..Len(arg_custom_colors) :
          upper(arg_custom_colors[i][1]) = upper(ret.color.s)
          => /\ ret.status = "ok"
             /\ IF upper(ret.color.s) \in DefaultNames
                THEN ret.val = FixedCode(upper(ret.color.s))
                ELSE (\A j \in (i + 1)..Len(arg_custom_colors) :
                         upper(arg_custom_colors[j][1]) # upper(ret.color.s))
                     => IsCodeOf(ret.val, arg_custom_colors[i][2])

\* C3 witness: {"pk": 7, "red": <escape string>} and "Pk" resolved to
\* "\x1b[38;5;7m".
C3_Witness ==
    /\ arg_custom_colors = << <<<<"p","k">>, PyInt(7)>>,
                              <<<<"r","e","d">>, PyStr(TwoSequences)>> >>
    /\ ret.op = "get_color_code" /\ ret.color = PyStr(<<"P","k">>)
    /\ ret.status = "ok"
    /\ ret.val = <<ESC,"[","3","8",";","5",";","7","m">>

\* C4 (as claimed): make_bold puts "1;" right after the first "[" of the code
\* and changes nothing else, also in a code with more than one "[".
C4_OnlyFirstBracket ==
    ret.op = "make_bold" => ret.val = BoldAfterFirstBracket(ret.color.s)

\* C4 (amended): make_bold puts "1;" right after every "[" of the code and
\* changes nothing else; colorize(text, X, bold=True), for X not falsy, is
\* the code resolved for X made bold this way, then text, then the reset code.
C4_EveryBracket ==
    /\ ret.op = "make_bold" => BoldAfterEveryBracket(ret.val, ret.color.s)
    /\ (ret.op = "colorize" /\ ret.bold /\ Truthy(ret.color) /\ ret.status = "ok")
       => LET r == Resolved(ret.color)
              n == Len(ret.val) - Len(ret.text) - 4
          IN /\ r.status = "ok"
             /\ n >= 0
             /\ BoldAfterEveryBracket(SubSeq(ret.val, 1, n), r.val)
             /\ SubSeq(ret.val, n + 1, n + Len(ret.text)) = ret.text
             /\ SubSeq(ret.val, n + Len(ret.text) + 1, Len(ret.val))
                  = <<ESC, "[", "0", "m">>

\* C4 witness: a bold colorize with a custom escape string of two "[", both
\* followed by "1;" in the result.
C4_Witness ==
    /\ ret.op = "colorize" /\ ret.bold /\ ret.color = PyStr(<<"p","k">>)
    /\ ret.text = <<"h","[">>
    /\ ret.val = <<ESC,"[","1",";","4","m",ESC,"[","1",";","3","4","m",
                   "h","[",ESC,"[","0","m">>

\* C5 (as claimed): for every specifier other than the absent one,
\* colorize(text, X, bold=False) is get_color_code(X) + text + "\x1b[0m" when
\* get_color_code(X) succeeds and raises the same error when it raises.
\* Stated here for the instances whose custom values are all ids in [0,255]
\* or escape strings, on which the normalization raises nothing.
C5_ColorizeIsResolveThenText ==
    (ret.op = "colorize" /\ ~ret.bold /\ ret.color.t # "none"
        /\ AllValid(arg_custom_colors))
    => LET r == Resolved(ret.color) IN
       /\ ret.status = r.status
       /\ ret.status = "ok" => ret.val = r.val \o ret.text \o <<ESC, "[", "0", "m">>

\* C5 (amended): the same for every specifier that is not falsy: not absent,
\* not the id 0, not the empty name, not the empty mapping (colorize picks a
\* random color for those).
C5_ColorizeTruthyIsResolveThenText ==
    (ret.op = "colorize" /\ ~ret.bold /\ Truthy(ret.color))
    => LET r == Resolved(ret.color) IN
       /\ ret.status = r.status
       /\ ret.status = "ok" => ret.val = r.val \o ret.text \o <<ESC, "[", "0", "m">>

\* C5 witness: colorize("h[", "blue") without bold gave "\x1b[94mh[\x1b[0m".
C5_Witness ==
    /\ ret.op = "colorize" /\ ~ret.bold /\ ret.color = PyStr(<<"b","l","u","e">>)
    /\ ret.val = <<ESC,"[","9","4","m","h","[",ESC,"[","0","m">>

\* C6 (as claimed): for a name matching no default and no normalized custom
\* color, get_color_code raises InvalidColorCode when ignore_invalid_colors
\* is false and returns "" when it is true, and colorize(text, name) then
\* returns text + "\x1b[0m".
C6_UnknownName ==
    (ret.color.t = "str" /\ Unknown(ret.color.s) /\ _custom_colors_populated)
    => /\ ret.op = "get_color_code"
          => IF ignore_invalid_colors
             THEN ret.status = "ok" /\ ret.val = <<>>
             ELSE ret.status = "InvalidColorCode"
       /\ (ret.op = "colorize" /\ ignore_invalid_colors)
          => ret.status = "ok" /\ ret.val = ret.text \o <<ESC, "[", "0", "m">>

\* C6 (amended): the same for a non-empty name on an instance whose custom
\* table normalizes (the empty name resolves the same way, but colorize takes
\* it for an absent specifier); when the normalization raises, get_color_code
\* and colorize of a non-empty name raise that error whatever the flag is.
C6_UnknownNonEmptyName ==
    /\ (ret.color.t = "str" /\ Unknown(ret.color.s) /\ _custom_colors_populated)
       => /\ ret.op = "get_color_code"
             => IF ignore_invalid_colors
                THEN ret.status = "ok" /\ ret.val = <<>>
                ELSE ret.status = "InvalidColorCode"
          /\ (ret.op = "colorize" /\ ret.color.s # <<>>)
             => IF ignore_invalid_colors
                THEN ret.status = "ok"
                     /\ ret.val = ret.text \o <<ESC, "[", "0", "m">>
                ELSE ret.status = "InvalidColorCode"
    /\ (ret.op \in {"get_color_code", "colorize"} /\ ret.color.t = "str"
          /\ ret.color.s # <<>> /\ ~_custom_colors_populated)
       => ret.status \in NormalizationErrors /\ ret.ran = 1

\* C6 witness: with the flag set, colorize("h[", "zz") gave "h[\x1b[0m".
C6_Witness ==
    /\ ignore_invalid_colors /\ _custom_colors_populated
    /\ ret.op = "colorize" /\ ret.color = PyStr(<<"z","z">>)
    /\ ret.val = <<"h","[",ESC,"[","0","m">>

\* C7: for an id outside [0,255], stringify_color_id(id), get_color_code(id)
\* and get_color_code({label: id}) raise InvalidColorCode, with
\* ignore_invalid_colors true or false; for an id in [0,255],
\* stringify_color_id(id) returns "\x1b[38;5;" + str(id) + "m".
C7_IdRange ==
    /\ (ret.op \in {"stringify_color_id", "get_color_code"}
          /\ ret.color.t \in {"int", "dict"}
          /\ (ret.color.n < 0 \/ ret.color.n > 255))
       => ret.status = "InvalidColorCode"
    /\ (ret.op = "stringify_color_id" /\ ret.color.t = "int"
          /\ ret.color.n >= 0 /\ ret.color.n <= 255)
       => ret.status = "ok" /\ IsIndexedCode(ret.val, ret.color.n)

\* C7 witness: get_color_code({label: 256}) raised InvalidColorCode on an
\* instance that ignores invalid colors.
C7_Witness ==
    /\ ignore_invalid_colors
    /\ ret.op = "get_color_code" /\ ret.color.t = "dict" /\ ret.color.n = 256
    /\ ret.status = "InvalidColorCode"

\* C8 (as claimed): a custom entry whose value is neither an int nor an
\* escape string is dropped silently: the read of custom_colors raises
\* nothing and the table is the normalization of the other entries.
C8_InvalidEntryDropped ==
    (ret.op = "custom_colors"
        /\ (\E i \in 1..Len(arg_custom_colors) : ~Normalizable(arg_custom_colors[i][2]))
        /\ (\A j \in 1..Len(arg_custom_colors) :
              Normalizable(arg_custom_colors[j][2]) => ValidValue(arg_custom_colors[j][2])))
    => /\ ret.status = "ok"
       /\ _custom_colors
            = NormalizeLoop(Self, SelectSeq(arg_custom_colors,
                                            LAMBDA x : Normalizable(x[2])), <<>>).temp

\* C9 (as claimed): over any sequence of calls the normalization runs at most
\* once per instance, for every custom input.  Stated here for the custom
\* inputs whose values are all ints or escape strings, those the
\* normalization has a branch for.
C9_NormalizationRunsAtMostOnce ==
    (\A i \in 1..Len(arg_custom_colors) : Normalizable(arg_custom_colors[i][2]))
    => normRuns <= 1

\* C9 (amended): the normalization completes at most once: the call that
\* finds the table not populated runs it once, and once it has completed no
\* later call runs it again; a run that raises leaves the table not
\* populated, so that the next access runs it again.
C9_NoRunOnceNormalized ==
    [][/\ _custom_colors_populated
          => (normRuns' = normRuns /\ _custom_colors_populated')
       /\ (~_custom_colors_populated /\ _custom_colors_populated')
          => normRuns' = normRuns + 1]_vars

\* C9 witness: a read of custom_colors answered from the populated table
\* after the one run that populated it.
C9_Witness ==
    /\ _custom_colors_populated /\ normRuns = 1
    /\ ret.op = "custom_colors" /\ ret.ran = 0
    /\ Len(arg_custom_colors) = 2

\* C10: once the custom table is normalized no call changes it: the table,
\* the populated flag and ignore_invalid_colors stay as they are.
C10_NormalizedTableImmutable ==
    [][_custom_colors_populated
         => /\ _custom_colors' = _custom_colors
            /\ _custom_colors_populated'
            /\ ignore_invalid_colors' = ignore_invalid_colors]_vars

\* C10 witness: a failed get_color_code of a name on a table populated by an
\* earlier call, the table still holding its two normalized entries.
C10_Witness ==
    /\ _custom_colors_populated /\ ret.ran = 0
    /\ ret.op = "get_color_code" /\ ret.color = PyStr(<<"z","z">>)
    /\ ret.status = "InvalidColorCode"
    /\ Len(_custom_colors) = 2

====
